---- MODULE Spec2Model ----
(***************************************************************************)
(* Model of include/links.cuh: the Links store (a fixed-capacity array of  *)
(* point-index pairs mirrored in host and device memory, with a count on   *)
(* each side) and the link kernel that turns links into forces.            *)
(*                                                                         *)
(* float values are modelled as fixed-point integers (plus one non-finite  *)
(* value); the inputs are chosen so that every quotient of linear_force is *)
(* exact, so float rounding is not part of this model.  The curandState    *)
(* array d_state is allocated and seeded but read by no operation of the   *)
(* file, and is left out.  assert() is taken as enabled (no NDEBUG).       *)
(***************************************************************************)
EXTENDS Integers, Sequences, FiniteSets, TLC

(* ------------------------------ bounds --------------------------------- *)

\* largest capacity n_max of a store followed from its allocation (Spec)
MaxCap == 1

\* largest capacity n_max of a store the kernel is launched on (SpecLaunch)
MaxSlots == 2

\* number of points of the external point buffer (d_X, d_dX)
NumPoints == 2

\* threads per block of a launch (32 in link_forces; the threads with
\* i >= n_max return at once, whatever the block size)
BlockDim == 2

(* --------------------------- program constants ------------------------- *)

\* float strength = 1.f / 5, in force units of 1/3900
DefaultStrength == 780

VARIABLES
    n_max,      \* Links::n_max
    strength,   \* Links::strength
    h_link,     \* host array, [0..n_max-1 -> Link]
    d_link,     \* device array, [0..n_max-1 -> Link]
    h_n,        \* *h_n
    d_n,        \* *d_n
    phase,      \* "raw" (allocated, constructor not yet run), "ready", "aborted"
    d_X,        \* point positions given to the running or last launch
    d_dX,       \* force accumulators given to the running or last launch
    dX0,        \* history: d_dX as it was when the launch was issued
    k_n_max,    \* the kernel's parameter n_max (get_d_n() at the launch)
    pc,         \* position of each thread of the running or last launch
    last        \* history: the last call, its argument and result

store_vars == <<h_link, d_link, h_n, d_n>>
kernel_vars == <<d_X, d_dX, dX0, k_n_max, pc>>
vars == <<n_max, strength, h_link, d_link, h_n, d_n, phase,
          d_X, d_dX, dX0, k_n_max, pc, last>>

(* ------------------------------- Link ---------------------------------- *)

Idx == 0 .. (NumPoints - 1)

\* struct Link { int a, b; }
Link == [a : Idx, b : Idx]

MkLink(x, y) == [a |-> x, b |-> y]

Slots(n) == 0 .. (n - 1)

LinkArrays(n) == [Slots(n) -> Link]

(* ------------------------ Check_link predicates ------------------------ *)

\* bool every_link(int a, int b) { return true; } and caller-supplied checks
Checks == {"every_link", "no_link", "is_active", "touches_0", "ascending"}

check(c, a, b) ==
    CASE c = "every_link" -> TRUE
      [] c = "no_link"    -> FALSE
      [] c = "is_active"  -> a # b
      [] c = "touches_0"  -> a = 0 \/ b = 0
      [] c = "ascending"  -> a < b

(* ------------------ the store as a value, and its methods --------------- *)
\* A store value S has the fields h_link, d_link, h_n, d_n and ok; ok turns
\* FALSE when an assert fails, and the methods do nothing on a failed store
\* (the process has aborted).

Store == [h_link |-> h_link, d_link |-> d_link, h_n |-> h_n, d_n |-> d_n, ok |-> TRUE]

\* the bound enforced by clamping instead of failing
set_d_n_clamp(S, n) ==
    IF ~S.ok THEN S
    ELSE [S EXCEPT !.d_n = IF n <= n_max THEN n ELSE n_max]

\* the host count written along with the device count
set_d_n_both(S, n) ==
    IF ~S.ok THEN S
    ELSE IF ~(n <= n_max) THEN [S EXCEPT !.ok = FALSE]
    ELSE [S EXCEPT !.d_n = n, !.h_n = n]

\* void set_d_n(int n)
set_d_n(S, n) ==
    IF ~S.ok THEN S
    ELSE IF ~(n <= n_max) THEN [S EXCEPT !.ok = FALSE]
    ELSE [S EXCEPT !.d_n = n]

\* the count read from the host side instead of the device
get_d_n_host(S) == [n |-> S.h_n, ok |-> S.ok /\ S.h_n <= n_max]

\* int get_d_n(): the value read, and whether the assert passed
get_d_n(S) == [n |-> S.d_n, ok |-> S.ok /\ S.d_n <= n_max]

\* only the first *h_n slots copied instead of all n_max
copy_to_device_active(S) ==
    IF ~S.ok THEN S
    ELSE IF ~(S.h_n <= n_max) THEN [S EXCEPT !.ok = FALSE]
    ELSE [S EXCEPT
            !.d_link = [i \in DOMAIN S.d_link |->
                          IF i < S.h_n THEN S.h_link[i] ELSE S.d_link[i]],
            !.d_n = S.h_n]

\* the assert placed after the two copies, as in copy_to_host
copy_to_device_late(S) ==
    IF ~S.ok THEN S
    ELSE [S EXCEPT !.d_link = S.h_link, !.d_n = S.h_n, !.ok = (S.h_n <= n_max)]

\* void copy_to_device()
copy_to_device(S) ==
    IF ~S.ok THEN S
    ELSE IF ~(S.h_n <= n_max) THEN [S EXCEPT !.ok = FALSE]
    ELSE [S EXCEPT !.d_link = S.h_link, !.d_n = S.h_n]

\* void copy_to_host(): both copies are made before the assert
copy_to_host(S) ==
    IF ~S.ok THEN S
    ELSE [S EXCEPT !.h_link = S.d_link, !.h_n = S.d_n, !.ok = (S.d_n <= n_max)]

\* the loop bounded by the active count instead of n_max
reset_loop_active(links, c) ==
    [i \in DOMAIN links |->
        IF i < d_n /\ check(c, links[i].a, links[i].b) THEN MkLink(0, 0) ELSE links[i]]

\* the loop of reset(): for i in [0, n_max), zero the slots that check accepts
reset_loop(links, c) ==
    [i \in DOMAIN links |->
        IF check(c, links[i].a, links[i].b) THEN MkLink(0, 0) ELSE links[i]]

\* reset without the copy_to_host: the loop runs over the host array as it is
reset_nopull(S, c) ==
    IF ~S.ok THEN S
    ELSE copy_to_device([S EXCEPT !.h_link = reset_loop(S.h_link, c)])

\* reset without the final copy_to_device
reset_nopush(S, c) ==
    LET pulled == copy_to_host(S)
    IN  IF pulled.ok
        THEN [pulled EXCEPT !.h_link = reset_loop(pulled.h_link, c)]
        ELSE pulled

\* void reset(Check_link check = every_link)
reset(S, c) ==
    LET pulled == copy_to_host(S)
        zeroed == IF pulled.ok
                  THEN [pulled EXCEPT !.h_link = reset_loop(pulled.h_link, c)]
                  ELSE pulled
    IN  copy_to_device(zeroed)

\* the constructor without its set_d_n(n_max)
constructor_noset(S) == reset([S EXCEPT !.h_n = n_max], "every_link")

\* the constructor without its reset()
constructor_noreset(S) == set_d_n([S EXCEPT !.h_n = n_max], n_max)

\* Links(int n_max, float strength): *h_n = n_max; set_d_n(n_max); reset();
constructor(S) ==
    reset(set_d_n([S EXCEPT !.h_n = n_max], n_max), "every_link")

(* --------------------------- float values ------------------------------ *)
\* A float is [nan |-> FALSE, v |-> an integer] or the non-finite NaN.

F(v) == [nan |-> FALSE, v |-> v]

NaN == [nan |-> TRUE, v |-> 0]

Zero3 == <<F(0), F(0), F(0)>>

\* float addition
fadd(x, y) == IF x.nan \/ y.nan THEN NaN ELSE F(x.v + y.v)

\* a guarded quotient: zero when the distance is zero
fdiv_zero(num, d) ==
    IF d = 0 THEN F(0)
    ELSE IF num >= 0 THEN F(num \div d) ELSE F(-((-num) \div d))

\* the quotient num / d of two floats, d >= 0: symmetric in the sign of num;
\* d is a distance, and num is 0 whenever d is 0, so that 0 / 0 = NaN
fdiv(num, d) ==
    IF d = 0 THEN NaN
    ELSE IF num >= 0 THEN F(num \div d) ELSE F(-((-num) \div d))

\* norm3df(x, y, z)
norm3df(x, y, z) ==
    LET q == x * x + y * y + z * z
        Abs(v) == IF v < 0 THEN -v ELSE v
    IN  CHOOSE d \in 0 .. (Abs(x) + Abs(y) + Abs(z)) :
            d * d <= q /\ q < (d + 1) * (d + 1)

\* a plain read-modify-write in place of the atomic one: the value read is
\* the one from before the other threads' additions, which are overwritten
atomicAdd_plain(acc, p, c, val) == [acc EXCEPT ![p][c] = fadd(dX0[p][c], val)]

\* atomicAdd(&acc[p].c, val)
atomicAdd(acc, p, c, val) == [acc EXCEPT ![p][c] = fadd(@, val)]

(* ---------------------------- linear_force ----------------------------- *)

\* auto r = d_X[a] - d_X[b]
Displacement(X, a, b) == [c \in 1 .. 3 |-> X[a][c] - X[b][c]]

\* a force proportional to the extension: the division by dist left out
ForceTerm_hooke(X, a, b, s, k) ==
    LET r == [c \in 1 .. 3 |-> X[a][c] - X[b][c]]
        c == IF k <= 3 THEN k ELSE k - 3
    IN  IF k <= 3
        THEN [p |-> a, c |-> c, val |-> F((-s) * r[c])]
        ELSE [p |-> b, c |-> c, val |-> F(s * r[c])]

\* the force on b given the sign of the force on a
ForceTerm_samesign(X, a, b, s, k) ==
    LET r == [c \in 1 .. 3 |-> X[a][c] - X[b][c]]
        dist == norm3df(r[1], r[2], r[3])
        c == IF k <= 3 THEN k ELSE k - 3
    IN  [p |-> IF k <= 3 THEN a ELSE b, c |-> c, val |-> fdiv((-s) * r[c], dist)]

\* the two signs exchanged: a pushed away from b, b away from a
ForceTerm_repel(X, a, b, s, k) ==
    LET r == [c \in 1 .. 3 |-> X[a][c] - X[b][c]]
        dist == norm3df(r[1], r[2], r[3])
        c == IF k <= 3 THEN k ELSE k - 3
    IN  IF k <= 3
        THEN [p |-> a, c |-> c, val |-> fdiv(s * r[c], dist)]
        ELSE [p |-> b, c |-> c, val |-> fdiv((-s) * r[c], dist)]

\* The k-th atomicAdd of linear_force, k = 1..6: the point it adds to, the
\* component, and the value (-strength * r.c / dist for a, +... for b).
ForceTerm(X, a, b, s, k) ==
    LET r == Displacement(X, a, b)
        dist == norm3df(r[1], r[2], r[3])
        c == IF k <= 3 THEN k ELSE k - 3
    IN  IF k <= 3
        THEN [p |-> a, c |-> c, val |-> fdiv((-s) * r[c], dist)]
        ELSE [p |-> b, c |-> c, val |-> fdiv(s * r[c], dist)]

(* ------------------------------ the launch ----------------------------- *)

\* thread positions: PcStart before the guards of link; k in 1..6 before the
\* k-th atomicAdd of the force law; PcForced returned after the force law;
\* PcSkipped returned by a guard of link
PcStart == 0
PcForced == 7
PcSkipped == 8

\* (n + 32 - 1) / 32 blocks (C division, truncating) of BlockDim threads
GridThreads(n) ==
    LET m == n + BlockDim - 1
        blocks == IF m >= 0 THEN m \div BlockDim ELSE -((-m) \div BlockDim)
    IN  IF blocks <= 0 THEN {} ELSE 0 .. (blocks * BlockDim - 1)

\* no kernel is running: a cudaMemcpy of the default stream waits for it
Quiescent == \A t \in DOMAIN pc : pc[t] \in {PcForced, PcSkipped}

(* ------------------------------ history -------------------------------- *)

NoArg == -9

NoSnap == <<>>

\* op: the call; n: the argument of set_d_n; check: the argument of reset;
\* ret: the result of get_d_n; prev, prevn: for get_d_n, copy_to_device,
\* copy_to_host (prev only) and link_forces, the call before it and that
\* call's n; before: for the constructor, the device
\* array as allocated (kept by a link_forces called right after it), for
\* copy_to_device the host array and count before it (kept by a copy_to_host
\* called right after it), for reset whether the host array and the host
\* count differed from the device ones before it; clear: "construct" or "reset" when the constructor
\* or reset(every_link) has run and only set_d_n, get_d_n and link_forces
\* have been called since.
Did(op) ==
    [op |-> op, n |-> NoArg, check |-> "-", ret |-> NoArg, prev |-> "-",
     prevn |-> NoArg, before |-> NoSnap, clear |-> "-"]

(* ------------------------------- Init ---------------------------------- *)

NoKernel ==
    /\ d_X = <<>>
    /\ d_dX = <<>>
    /\ dX0 = <<>>
    /\ k_n_max = 0
    /\ pc = <<>>

Garbage(n) == {[i \in Slots(n) |-> MkLink(0, 0)], [i \in Slots(n) |-> MkLink(1, 0)]}

\* After the allocations of the constructor (malloc, cudaMalloc), before its
\* body has run: every allocated cell holds an arbitrary value.  n_max and
\* strength are the arguments of the constructor.
Allocated(caps, strengths) ==
    /\ n_max \in caps
    /\ strength \in strengths
    /\ d_link \in LinkArrays(n_max)
    /\ h_link \in Garbage(n_max)
    /\ h_n \in {-1, n_max + 1}
    /\ d_n \in {0, n_max + 1}
    /\ phase = "raw"
    /\ NoKernel
    /\ last = Did("alloc")

Init == Allocated(0 .. MaxCap, {DefaultStrength})

(* --------------------------- store actions ----------------------------- *)

Becomes(S) ==
    /\ h_link' = S.h_link
    /\ d_link' = S.d_link
    /\ h_n' = S.h_n
    /\ d_n' = S.d_n
    /\ phase' = IF S.ok THEN "ready" ELSE "aborted"
    /\ UNCHANGED <<n_max, strength>>
    /\ UNCHANGED kernel_vars

Construct ==
    /\ phase = "raw"
    /\ Becomes(constructor(Store))
    /\ last' = [Did("construct") EXCEPT !.before = <<d_link>>, !.clear = "construct"]

SetDN(n) ==
    /\ phase = "ready" /\ Quiescent
    /\ Becomes(set_d_n(Store, n))
    /\ last' = [Did("set_d_n") EXCEPT !.n = n, !.clear = last.clear]

GetDN ==
    /\ phase = "ready" /\ Quiescent
    /\ LET r == get_d_n(Store)
       IN  /\ Becomes([Store EXCEPT !.ok = r.ok])
           /\ last' = [Did("get_d_n") EXCEPT
                         !.ret = r.n, !.prev = last.op, !.prevn = last.n,
                         !.clear = last.clear]

Reset(c) ==
    /\ phase = "ready" /\ Quiescent
    /\ Becomes(reset(Store, c))
    /\ last' = [Did("reset") EXCEPT
                  !.check = c,
                  !.before = <<h_link # d_link, h_n # d_n>>,
                  !.clear = IF c = "every_link" THEN "reset" ELSE "-"]

CopyToDevice ==
    /\ phase = "ready" /\ Quiescent
    /\ Becomes(copy_to_device(Store))
    /\ last' = [Did("copy_to_device") EXCEPT
                  !.prev = last.op, !.prevn = last.n, !.before = <<h_link, h_n>>]

CopyToHost ==
    /\ phase = "ready" /\ Quiescent
    /\ Becomes(copy_to_host(Store))
    /\ last' = [Did("copy_to_host") EXCEPT
                  !.prev = last.op,
                  !.before = IF last.op = "copy_to_device" THEN last.before ELSE NoSnap]

\* the caller stores into the public array: links.h_link[i] = {a, b}
WriteLink(i, l) ==
    /\ phase = "ready" /\ Quiescent
    /\ i \in Slots(n_max)
    /\ h_link' = [h_link EXCEPT ![i] = l]
    /\ UNCHANGED <<n_max, strength, d_link, h_n, d_n, phase>>
    /\ UNCHANGED kernel_vars
    /\ last' = Did("write_link")

\* the caller stores into the public count: *links.h_n = n
WriteCount(n) ==
    /\ phase = "ready" /\ Quiescent
    /\ h_n' = n
    /\ UNCHANGED <<n_max, strength, h_link, d_link, d_n, phase>>
    /\ UNCHANGED kernel_vars
    /\ last' = Did("write_count")

\* the int arguments tried: below 0, within [0, n_max], above n_max
Counts == -1 .. (n_max + 1)

Next ==
    \/ Construct
    \/ \E n \in Counts : SetDN(n)
    \/ GetDN
    \/ \E c \in Checks : Reset(c)
    \/ CopyToDevice
    \/ CopyToHost
    \/ \E i \in Slots(n_max), l \in Link : WriteLink(i, l)
    \/ \E n \in Counts : WriteCount(n)

Spec == Init /\ [][Next]_vars

(* --------------------------- kernel actions ---------------------------- *)

Points == 0 .. (NumPoints - 1)

\* positions with integer distances 5, 12 and 13 between them
Positions == {<<0, 0, 0>>, <<3, 4, 0>>, <<3, 4, 12>>}

PointSets == [Points -> Positions]

\* accumulators before a launch: all zero, or holding earlier forces
Accumulators ==
    {[p \in Points |-> Zero3],
     [p \in Points |-> <<F(100 * (p + 1)), F(-7), F(1)>>]}

\* the launch sized and bounded by the host count *h_n instead of get_d_n()
Launch_hostcount(X, dX) ==
    /\ phase = "ready" /\ Quiescent
    /\ LET r == get_d_n_host(Store)
       IN  IF r.ok
           THEN /\ d_X' = X
                /\ d_dX' = dX
                /\ dX0' = dX
                /\ k_n_max' = r.n
                /\ pc' = [t \in GridThreads(r.n) |-> PcStart]
                /\ UNCHANGED phase
           ELSE /\ phase' = "aborted"
                /\ UNCHANGED kernel_vars
    /\ UNCHANGED <<n_max, strength, h_link, d_link, h_n, d_n>>
    /\ last' = [Did("link_forces") EXCEPT
                  !.prev = last.op, !.prevn = last.n, !.clear = last.clear,
                  !.before = IF last.op = "construct" THEN last.before ELSE NoSnap]

\* link_forces(links, d_X, d_dX): link<<<(get_d_n() + 32 - 1) / 32, 32>>>(
\*     d_X, d_dX, links.d_link, links.get_d_n(), links.strength)
Launch(X, dX) ==
    /\ phase = "ready" /\ Quiescent
    /\ LET r == get_d_n(Store)
       IN  IF r.ok
           THEN /\ d_X' = X
                /\ d_dX' = dX
                /\ dX0' = dX
                /\ k_n_max' = r.n
                /\ pc' = [t \in GridThreads(r.n) |-> PcStart]
                /\ UNCHANGED phase
           ELSE /\ phase' = "aborted"
                /\ UNCHANGED kernel_vars
    /\ UNCHANGED <<n_max, strength, h_link, d_link, h_n, d_n>>
    /\ last' = [Did("link_forces") EXCEPT
                  !.prev = last.op, !.prevn = last.n, !.clear = last.clear,
                  !.before = IF last.op = "construct" THEN last.before ELSE NoSnap]

\* link without its second guard: the force law run for a == b as well
Enter_noskip(t) ==
    /\ phase = "ready"
    /\ t \in DOMAIN pc
    /\ pc[t] = PcStart
    /\ pc' = [pc EXCEPT ![t] = IF t >= k_n_max THEN PcSkipped ELSE 1]
    /\ UNCHANGED <<n_max, strength, h_link, d_link, h_n, d_n, phase,
                   d_X, d_dX, dX0, k_n_max, last>>

\* link without its first guard: the count is not looked at
Enter_noguard(t) ==
    /\ phase = "ready"
    /\ t \in DOMAIN pc
    /\ pc[t] = PcStart
    /\ pc' = [pc EXCEPT ![t] =
                IF t \in DOMAIN d_link /\ d_link[t].a # d_link[t].b THEN 1
                ELSE PcSkipped]
    /\ UNCHANGED <<n_max, strength, h_link, d_link, h_n, d_n, phase,
                   d_X, d_dX, dX0, k_n_max, last>>

\* link: if (i >= n_max) return; a, b = d_link[i]; if (a == b) return;
\* force(d_X, a, b, strength, d_dX)
Enter(t) ==
    /\ phase = "ready"
    /\ t \in DOMAIN pc
    /\ pc[t] = PcStart
    /\ pc' = [pc EXCEPT ![t] =
                IF t >= k_n_max THEN PcSkipped
                ELSE IF d_link[t].a = d_link[t].b THEN PcSkipped
                ELSE 1]
    /\ UNCHANGED <<n_max, strength, h_link, d_link, h_n, d_n, phase,
                   d_X, d_dX, dX0, k_n_max, last>>

\* linear_force: one atomicAdd
Add(t) ==
    /\ phase = "ready"
    /\ t \in DOMAIN pc
    /\ pc[t] \in 1 .. 6
    /\ LET term == ForceTerm(d_X, d_link[t].a, d_link[t].b, strength, pc[t])
       IN  d_dX' = atomicAdd(d_dX, term.p, term.c, term.val)
    /\ pc' = [pc EXCEPT ![t] = @ + 1]
    /\ UNCHANGED <<n_max, strength, h_link, d_link, h_n, d_n, phase,
                   d_X, dX0, k_n_max, last>>

\* A store the caller has filled and pushed: both copies hold the same links
\* and the same count.
Pushed(caps, strengths) ==
    /\ n_max \in caps
    /\ strength \in strengths
    /\ d_link \in LinkArrays(n_max)
    /\ h_link = d_link
    /\ d_n \in -1 .. n_max
    /\ h_n = d_n
    /\ phase = "ready"
    /\ NoKernel
    /\ last = [Did("copy_to_device") EXCEPT !.before = <<h_link, h_n>>]

LaunchInit ==
    \/ Allocated({MaxSlots}, {DefaultStrength})
    \/ Pushed(1 .. MaxSlots, {DefaultStrength, 2 * DefaultStrength})

LaunchNext ==
    \/ Construct
    \/ \E n \in Counts : SetDN(n)
    \/ \E c \in Checks : Reset(c)
    \/ \E X \in PointSets, dX \in Accumulators : Launch(X, dX)
    \/ \E t \in DOMAIN pc : Enter(t)
    \/ \E t \in DOMAIN pc : Add(t)

SpecLaunch == LaunchInit /\ [][LaunchNext]_vars

(* ======================= properties of the launch ====================== *)

\* the launch issued last has completed and no call was made since
Completed == phase = "ready" /\ last.op = "link_forces" /\ Quiescent

\* slot i is an active link of the launch: i < n_max (the kernel's) and a # b
ActiveSlot(i) == i \in Slots(k_n_max) /\ d_link[i].a # d_link[i].b

RECURSIVE SeqAdds(_, _, _)
\* the atomicAdds k..6 of slot i applied to acc one after the other
SeqAdds(acc, i, k) ==
    IF k > 6 THEN acc
    ELSE LET term == ForceTerm(d_X, d_link[i].a, d_link[i].b, strength, k)
         IN  SeqAdds([acc EXCEPT ![term.p][term.c] = fadd(@, term.val)], i, k + 1)

RECURSIVE SeqSlots(_, _)
\* the sequential reference: slots i, i+1, .. below the kernel's n_max in turn
SeqSlots(acc, i) ==
    IF i >= k_n_max THEN acc
    ELSE SeqSlots(IF ActiveSlot(i) THEN SeqAdds(acc, i, 1) ELSE acc, i + 1)

\* C1: when a launch has completed, whatever the interleaving of its threads,
\* every accumulator holds its value at the launch plus the contributions of
\* all active links below n_max, as a sequential pass over the slots gives.
C1_SumIndependentOfOrder == Completed => d_dX = SeqSlots(dX0, 0)

\* C1 witness: a completed launch in which two active slots share point 0,
\* whose points are apart, and whose accumulator was not zero at the launch.
C1_Witness ==
    /\ Completed
    /\ k_n_max = 2
    /\ ActiveSlot(0) /\ ActiveSlot(1)
    /\ d_X[0] # d_X[1]
    /\ dX0[0][1] = F(100)
    /\ d_dX[0] # dX0[0]

(* ---------------------------------------------------------------------- *)

\* running or completed launch whose links are still those of d_link
InLaunch == phase = "ready" /\ last.op = "link_forces"

\* the force vector that linear_force adds to a (first = TRUE) or to b
ForceOn(a, b, first) ==
    [c \in 1 .. 3 |-> ForceTerm(d_X, a, b, strength, IF first THEN c ELSE c + 3).val]

\* what the launch has added to the accumulator of point p so far
Added(p) == [c \in 1 .. 3 |-> d_dX[p][c].v - dX0[p][c].v]

Finite3(f) == \A c \in 1 .. 3 : ~f[c].nan

\* u is a positive multiple of w: u x w = 0 and u . w > 0
SameDirection(u, w) ==
    /\ u[2] * w[3] - u[3] * w[2] = 0
    /\ u[3] * w[1] - u[1] * w[3] = 0
    /\ u[1] * w[2] - u[2] * w[1] = 0
    /\ u[1] * w[1] + u[2] * w[2] + u[3] * w[3] > 0

NormSquared(u) == u[1] * u[1] + u[2] * u[2] + u[3] * u[3]

\* u is the pull on a toward b of magnitude strength, and w its negative
EqualOppositePull(u, w, a, b) ==
    /\ \A c \in 1 .. 3 : w[c] = -u[c]
    /\ SameDirection(u, Displacement(d_X, b, a))
    /\ NormSquared(u) = strength * strength

\* the slots below the kernel's n_max that hold an active link
ActiveSlots == {i \in Slots(k_n_max) : ActiveSlot(i)}

\* C2: for every slot the force law is invoked on, with its two points at
\* different positions, the force added to a and the force added to b are
\* exact negatives, the force on a points from a toward b, and its magnitude
\* is strength whatever the distance; and a completed launch with a single
\* such link has added exactly that to the accumulators of a and b.
C2_EqualOppositeAttraction ==
    InLaunch =>
        /\ \A t \in DOMAIN pc :
              LET a == d_link[t].a
                  b == d_link[t].b
              IN  (pc[t] \in 1 .. PcForced /\ d_X[a] # d_X[b]) =>
                      /\ \A k \in 1 .. 6 :
                            ForceTerm(d_X, a, b, strength, k).p = IF k <= 3 THEN a ELSE b
                      /\ Finite3(ForceOn(a, b, TRUE)) /\ Finite3(ForceOn(a, b, FALSE))
                      /\ EqualOppositePull([c \in 1 .. 3 |-> ForceOn(a, b, TRUE)[c].v],
                                           [c \in 1 .. 3 |-> ForceOn(a, b, FALSE)[c].v],
                                           a, b)
        /\ \A i \in ActiveSlots :
              LET a == d_link[i].a
                  b == d_link[i].b
              IN  (Quiescent /\ ActiveSlots = {i} /\ d_X[a] # d_X[b]) =>
                      /\ Finite3(d_dX[a]) /\ Finite3(d_dX[b])
                      /\ EqualOppositePull(Added(a), Added(b), a, b)

\* C2 witness: a completed launch with the single active link (1, 0), its
\* points 13 apart, with forces added to both.
C2_Witness ==
    /\ Completed
    /\ ActiveSlots = {1}
    /\ d_link[1] = MkLink(1, 0)
    /\ d_X[0] = <<0, 0, 0>> /\ d_X[1] = <<3, 4, 12>>
    /\ Added(1) = <<-180 * (strength \div 780), -240 * (strength \div 780), -720 * (strength \div 780)>>
    /\ Added(0) = <<180 * (strength \div 780), 240 * (strength \div 780), 720 * (strength \div 780)>>

(* ======================== properties of the store ====================== *)

AllZero(links) == \A i \in DOMAIN links : links[i] = MkLink(0, 0)

\* C3: reset() with the default check returns with (0, 0) in every slot of
\* [0, n_max) of the host and of the device array, whatever the counts; and a
\* launch made after it (the count possibly changed by set_d_n in between)
\* never changes an accumulator.
C3_ResetAllThenLaunch ==
    /\ (last.op = "reset" /\ last.check = "every_link") =>
           /\ phase = "ready"
           /\ DOMAIN h_link = Slots(n_max) /\ AllZero(h_link)
           /\ DOMAIN d_link = Slots(n_max) /\ AllZero(d_link)
    /\ (InLaunch /\ last.clear = "reset") => d_dX = dX0

\* C3 witness: a launch over the full capacity 2, made after reset() and a
\* set_d_n, has completed and left the non-zero accumulators as they were.
C3_Witness ==
    /\ Completed
    /\ last.clear = "reset" /\ last.prev = "set_d_n" /\ last.prevn = 2
    /\ n_max = 2 /\ k_n_max = 2
    /\ \A t \in DOMAIN pc : pc[t] = PcSkipped
    /\ AllZero(d_link) /\ AllZero(h_link)
    /\ d_X[0] # d_X[1]
    /\ dX0[0][1] = F(100) /\ d_dX = dX0

\* what reset(c) makes of a slot holding l
ResetOf(c, l) == IF check(c, l.a, l.b) THEN MkLink(0, 0) ELSE l

\* C4: a reset(check) step returns, and leaves in slot i of both arrays the
\* (a, b) the device array held in slot i before the step when check rejects
\* it, and (0, 0) when check accepts it, for every slot i of [0, n_max).
C4_ResetFrame ==
    [][last'.op = "reset" =>
          /\ phase' = "ready"
          /\ \A i \in Slots(n_max) :
                /\ d_link'[i] = ResetOf(last'.check, d_link[i])
                /\ h_link'[i] = ResetOf(last'.check, d_link[i])]_vars

\* C4 witness: reset(ascending) has returned with the link (1, 0), which the
\* check rejects, still in slot 0 of both arrays.
C4_Witness ==
    /\ phase = "ready"
    /\ last.op = "reset" /\ last.check = "ascending"
    /\ n_max >= 1
    /\ d_link[0] = MkLink(1, 0) /\ h_link[0] = MkLink(1, 0)

\* C5: get_d_n() called right after a set_d_n(n) with 0 <= n <= n_max
\* returns n (and does not abort).
C5_SetThenGet ==
    (last.op = "get_d_n" /\ last.prev = "set_d_n"
        /\ 0 <= last.prevn /\ last.prevn <= n_max) =>
        (phase = "ready" /\ last.ret = last.prevn)

\* C5 witness: set_d_n(0), get_d_n() = 0 on a store of capacity 1 whose host
\* count is 1 and whose host link differs from the device link.
C5_Witness ==
    /\ phase = "ready"
    /\ last.op = "get_d_n" /\ last.prev = "set_d_n" /\ last.prevn = 0 /\ last.ret = 0
    /\ n_max = 1 /\ h_n = 1
    /\ h_link[0] # d_link[0]

\* C6: a set_d_n(n) step with n > n_max aborts, and both counts and both
\* arrays are at the abort what they were before the call.
C6_SetTooLargeFails ==
    [][(last'.op = "set_d_n" /\ last'.n > n_max) =>
          (phase' = "aborted" /\ UNCHANGED store_vars)]_vars

\* C6 witness: set_d_n(n_max + 1) has aborted on a store whose device count
\* is 0, not n_max.
C6_Witness ==
    /\ phase = "aborted"
    /\ last.op = "set_d_n" /\ last.n = n_max + 1
    /\ n_max = 1 /\ d_n = 0 /\ h_n = 1

\* C7: copy_to_host() called right after copy_to_device() returns with the
\* host array and the host count as they were before the copy_to_device().
C7_PushPullRoundTrip ==
    (last.op = "copy_to_host" /\ last.prev = "copy_to_device") =>
        (phase = "ready" /\ <<h_link, h_n>> = last.before)

\* C7 witness: the round trip made with a host link (1, 0) and a host count 0
\* that the caller wrote (the constructor leaves (0, 0) and n_max).
C7_Witness ==
    /\ phase = "ready"
    /\ last.op = "copy_to_host" /\ last.prev = "copy_to_device"
    /\ n_max = 1
    /\ h_link[0] = MkLink(1, 0) /\ h_n = 0
    /\ d_link = h_link /\ d_n = h_n

\* C8 (as claimed): in every state with no abort, 0 <= d_n <= n_max.
C8_CountWithinBounds ==
    phase = "ready" => (0 <= d_n /\ d_n <= n_max)

\* C9: right after construction both counts equal n_max, and so does the
\* result of a get_d_n() called next.
C9_CountIsCapacityAfterConstruction ==
    /\ last.op = "construct" =>
           (phase = "ready" /\ d_n = n_max /\ h_n = n_max /\ get_d_n(Store).n = n_max)
    /\ (last.op = "get_d_n" /\ last.prev = "construct") =>
           (phase = "ready" /\ last.ret = n_max)

\* C9 witness: get_d_n() = 1 right after the construction of a store of
\* capacity 1.
C9_Witness ==
    /\ phase = "ready"
    /\ last.op = "get_d_n" /\ last.prev = "construct" /\ last.ret = 1
    /\ n_max = 1 /\ h_n = 1 /\ d_n = 1

\* C10 (as claimed): construction does not zero link content, the device
\* array holds after construction what it held when it was allocated.
C10_ConstructionKeepsContent ==
    last.op = "construct" => d_link = last.before[1]

\* C10 (amended): construction returns with (0, 0) in every slot of both
\* arrays, whatever the arrays held when they were allocated, and a launch
\* made right after construction never changes an accumulator.
C10_ConstructionZeroesLinks ==
    /\ last.op = "construct" =>
           (phase = "ready" /\ AllZero(h_link) /\ AllZero(d_link))
    /\ (InLaunch /\ last.prev = "construct") => d_dX = dX0

\* C10 witness: a store of capacity 2 whose device array was allocated
\* holding the active links (0, 1) and (1, 0); the launch made right after
\* its construction has completed, every thread having returned at the guard.
C10_Witness ==
    /\ Completed
    /\ last.prev = "construct"
    /\ last.before = <<[i \in Slots(2) |-> IF i = 0 THEN MkLink(0, 1) ELSE MkLink(1, 0)]>>
    /\ n_max = 2 /\ k_n_max = 2
    /\ \A t \in DOMAIN pc : pc[t] = PcSkipped
    /\ AllZero(d_link)
    /\ d_X[0] # d_X[1]
    /\ dX0[0][1] = F(100) /\ d_dX = dX0

\* C11: a set_d_n(n) step with n <= n_max returns with the device count n and
\* with the host count and both arrays unchanged; and a copy_to_device() that
\* is called right after it and returns leaves in the device count the host
\* count, which is the one from before the set_d_n.
C11_SetWritesDeviceCountOnly ==
    [][/\ (last'.op = "set_d_n" /\ last'.n <= n_max) =>
              /\ phase' = "ready"
              /\ d_n' = last'.n
              /\ UNCHANGED <<h_n, h_link, d_link>>
       /\ (last.op = "set_d_n" /\ last'.op = "copy_to_device" /\ phase' = "ready") =>
              (d_n' = h_n /\ h_n' = h_n)]_vars

\* C11 witness: on a store of capacity 1 with host count 1, set_d_n(0) and
\* then copy_to_device(): the device count is 1 again.
C11_Witness ==
    /\ phase = "ready"
    /\ last.op = "copy_to_device" /\ last.prev = "set_d_n" /\ last.prevn = 0
    /\ n_max = 1 /\ h_n = 1 /\ d_n = 1

(* ========================= the chain scenario ========================== *)

\* links {(1,2), (2,3), (0,0), (0,0)} in a store of capacity 4
ChainLinks ==
    LET l == <<MkLink(1, 2), MkLink(2, 3), MkLink(0, 0), MkLink(0, 0)>>
    IN  [i \in Slots(Len(l)) |-> l[i + 1]]

\* points 0..3 at (0,0,0), (1,0,0), (2,0,0), (3,0,0)
ChainX == [p \in DOMAIN ChainLinks |-> <<p, 0, 0>>]

\* accumulators of the chain's points before a launch: zero, or earlier forces
ChainAccumulators ==
    {[p \in DOMAIN ChainX |-> Zero3],
     [p \in DOMAIN ChainX |-> <<F(100 * (p + 1)), F(-7), F(1)>>]}

\* the chain filled in and pushed: Links links(4); h_link[i] = ..;
\* copy_to_device(), the counts being 4 since the construction
ChainInit ==
    /\ n_max = Cardinality(DOMAIN ChainLinks)
    /\ strength = DefaultStrength
    /\ d_link = ChainLinks
    /\ h_link = d_link
    /\ d_n = n_max
    /\ h_n = d_n
    /\ phase = "ready"
    /\ NoKernel
    /\ last = [Did("copy_to_device") EXCEPT !.before = <<h_link, h_n>>]

ChainNext ==
    \/ \E n \in Counts : SetDN(n)
    \/ \E dX \in ChainAccumulators : Launch(ChainX, dX)
    \/ \E t \in DOMAIN pc : Enter(t)
    \/ \E t \in DOMAIN pc : Add(t)

SpecChain == ChainInit /\ [][ChainNext]_vars

\* C12: a launch on the chain with the device count 4 and from zero
\* accumulators, once completed, has given point 1 the force (+strength, 0, 0), point 2 the force zero, point 3
\* the force (-strength, 0, 0) and point 0 no force, whatever the order in
\* which the threads made their steps.
C12_ChainForces ==
    (Completed /\ k_n_max = 4 /\ \A p \in DOMAIN dX0 : dX0[p] = Zero3) =>
        /\ d_dX[0] = Zero3
        /\ d_dX[1] = <<F(strength), F(0), F(0)>>
        /\ d_dX[2] = Zero3
        /\ d_dX[3] = <<F(-strength), F(0), F(0)>>

\* C12 witness: the launch from zero accumulators has completed, the threads
\* of slots 0 and 1 through the force law and those of slots 2 and 3 through
\* the guard; strength is 0.2.
C12_Witness ==
    /\ Completed
    /\ k_n_max = 4 /\ d_n = 4 /\ h_n = 4
    /\ \A p \in DOMAIN dX0 : dX0[p] = Zero3
    /\ d_link = ChainLinks /\ d_X = ChainX /\ strength = DefaultStrength
    /\ pc[0] = PcForced /\ pc[1] = PcForced /\ pc[2] = PcSkipped /\ pc[3] = PcSkipped
    /\ d_dX[1][1] = F(780) /\ d_dX[3][1] = F(-780)

(* ---------------------------------------------------------------------- *)

\* thread t is in the force law or has returned from it
Invoked(t) == pc[t] \in 1 .. PcForced

\* C13: during and after a launch the kernel's count is the device count; a
\* thread is in or past the force law only if its index is a slot below that
\* count holding a # b; when the launch has completed, the force law has been
\* run for every such slot; and a thread's step never takes it back, so that
\* the force law is entered at most once per slot.
C13_ForceOncePerActiveSlot ==
    /\ [](InLaunch =>
            /\ k_n_max = d_n
            /\ \A t \in DOMAIN pc :
                  Invoked(t) => (t \in Slots(n_max) /\ t < d_n /\ d_link[t].a # d_link[t].b)
            /\ Quiescent =>
                  \A i \in Slots(n_max) :
                     (i < d_n /\ d_link[i].a # d_link[i].b) =>
                         (i \in DOMAIN pc /\ pc[i] = PcForced))
    /\ [][~Quiescent =>
             \A t \in DOMAIN pc :
                /\ t \in DOMAIN pc'
                /\ pc[t] # PcStart => pc'[t] \in {pc[t], pc[t] + 1}
                /\ pc[t] \in {PcForced, PcSkipped} => pc'[t] = pc[t]]_vars

\* C13 witness: a completed launch on a store of capacity 2 with device
\* count 1 and a # b in both slots: the force law has run for slot 0 and not
\* for slot 1.
C13_Witness ==
    /\ Completed
    /\ n_max = 2 /\ d_n = 1 /\ k_n_max = 1
    /\ d_link[0].a # d_link[0].b /\ d_link[1].a # d_link[1].b
    /\ pc[0] = PcForced /\ pc[1] = PcSkipped
    /\ d_dX # dX0

(* ---------------------------------------------------------------------- *)

\* point p is an end of an active link in a slot below the kernel's n_max
Referenced(p) == \E i \in ActiveSlots : p \in {d_link[i].a, d_link[i].b}

\* C14: the link_forces call and every step of its threads leave n_max,
\* strength, both arrays and both counts unchanged; a thread's step leaves the
\* positions unchanged and changes no accumulator of a point that is not an
\* end of an active link below the kernel's n_max; and in every state of the
\* launch such a point's accumulator is what it was when the launch was
\* issued.
C14_LaunchFrame ==
    /\ [](InLaunch =>
            /\ DOMAIN d_dX = DOMAIN dX0
            /\ \A p \in DOMAIN d_dX : ~Referenced(p) => d_dX[p] = dX0[p])
    /\ [][/\ (last'.op = "link_forces" /\ phase' = "ready") =>
                UNCHANGED <<n_max, strength, h_link, d_link, h_n, d_n, phase>>
          /\ ~Quiescent =>
                /\ last'.op = "link_forces"
                /\ UNCHANGED <<d_X, dX0, k_n_max>>
                /\ DOMAIN d_dX' = DOMAIN d_dX
                /\ \A p \in DOMAIN d_dX : ~Referenced(p) => d_dX'[p] = d_dX[p]]_vars

\* C14 witness: the chain launched with device count 1 (host count 4) and
\* non-zero accumulators has completed: slot 0, the link (1, 2), has changed
\* the accumulators of points 1 and 2, and those of points 0 and 3 are as at
\* the launch, slot 1 holding (2, 3) at or above the count.
C14_Witness ==
    /\ Completed
    /\ k_n_max = 1 /\ d_n = 1 /\ h_n = 4
    /\ d_link = ChainLinks /\ h_link = ChainLinks /\ d_X = ChainX
    /\ dX0[0][1] = F(100)
    /\ d_dX[1] # dX0[1] /\ d_dX[2] # dX0[2]
    /\ d_dX[0] = dX0[0] /\ d_dX[3] = dX0[3]

(* ---------------------------------------------------------------------- *)

\* C15: whenever reset(check) has returned, the device array equals the host
\* array in all n_max slots and the device count equals the host count.
C15_MirrorsEqualAfterReset ==
    (last.op = "reset" /\ phase = "ready") =>
        /\ DOMAIN h_link = Slots(n_max) /\ DOMAIN d_link = Slots(n_max)
        /\ \A i \in Slots(n_max) : d_link[i] = h_link[i]
        /\ d_n = h_n

\* C15 witness: reset(is_active) has returned on a store of capacity 1 whose
\* host array and host count both differed from the device ones before it.
C15_Witness ==
    /\ phase = "ready"
    /\ last.op = "reset" /\ last.check = "is_active"
    /\ n_max = 1
    /\ last.before = <<TRUE, TRUE>>
    /\ h_link = d_link /\ h_n = d_n

(* ---------------------------------------------------------------------- *)

\* slot t lies below the kernel's n_max and links two different points that
\* are at the same position
Coincident(t) ==
    /\ t \in Slots(k_n_max) /\ t \in DOMAIN d_link
    /\ d_link[t].a # d_link[t].b
    /\ d_X[d_link[t].a] = d_X[d_link[t].b]

AllNaN(f) == \A c \in 1 .. 3 : f[c].nan

\* C16: in a launch, the thread of a slot below the count with a # b whose
\* points coincide never returns at a guard; the distance its force law
\* divides by is zero; each atomicAdd it has made has left a non-finite value
\* in the component it added to; and once it has returned, all components of
\* the accumulators of a and of b are non-finite.
C16_CoincidentPointsGiveNaN ==
    InLaunch =>
        \A t \in DOMAIN pc :
            Coincident(t) =>
                LET a == d_link[t].a
                    b == d_link[t].b
                    r == Displacement(d_X, a, b)
                IN  /\ pc[t] # PcSkipped
                    /\ norm3df(r[1], r[2], r[3]) = 0
                    /\ \A k \in 1 .. 6 :
                          LET term == ForceTerm(d_X, a, b, strength, k)
                          IN  /\ term.val.nan
                              /\ (pc[t] \in (k + 1) .. PcForced) =>
                                     d_dX[term.p][term.c].nan
                    /\ pc[t] = PcForced => (AllNaN(d_dX[a]) /\ AllNaN(d_dX[b]))

\* C16 witness: a completed launch whose slot 0 holds the link (0, 1) with
\* both points at (3, 4, 0); the accumulators, finite at the launch, are
\* non-finite in every component.
C16_Witness ==
    /\ Completed
    /\ Coincident(0) /\ d_link[0] = MkLink(0, 1)
    /\ d_X[0] = <<3, 4, 0>>
    /\ pc[0] = PcForced
    /\ Finite3(dX0[0]) /\ Finite3(dX0[1]) /\ dX0[0][1] = F(100)
    /\ AllNaN(d_dX[0]) /\ AllNaN(d_dX[1])

(* ---------------------------------------------------------------------- *)

\* the store with H and n in place of its host array and host count
WithHost(H, n) == [Store EXCEPT !.h_link = H, !.h_n = n]

\* C17: a reset(check) step leaves the device count unchanged and in the
\* host count, and what it leaves in both arrays and both counts is what
\* reset(check) gives from the same device array and device count with
\* another host array and host count: those equal to the device ones (no
\* change made since the push), and others.
C17_ResetDiscardsHostEdits ==
    [][last'.op = "reset" =>
          /\ phase' = "ready"
          /\ d_n' = d_n /\ h_n' = d_n
          /\ \A H \in Garbage(n_max) \cup {d_link}, n \in Counts \cup {d_n} :
                LET R == reset(WithHost(H, n), last'.check)
                IN  /\ R.ok
                    /\ <<h_link', d_link', h_n', d_n'>> =
                           <<R.h_link, R.d_link, R.h_n, R.d_n>>]_vars

\* C17 witness: reset(no_link) has returned on a store of capacity 1 whose
\* host array and count the caller had changed: both arrays hold the device
\* link (1, 0) and both counts the device count 0.
C17_Witness ==
    /\ phase = "ready"
    /\ last.op = "reset" /\ last.check = "no_link"
    /\ last.before = <<TRUE, TRUE>>
    /\ n_max = 1
    /\ d_link[0] = MkLink(1, 0) /\ h_link[0] = MkLink(1, 0)
    /\ d_n = 0 /\ h_n = 0

(* ================== launches on a store with unpushed edits ============ *)

\* points at three different places (the third for a larger NumPoints)
SpreadX ==
    [p \in Points |->
        IF p = 0 THEN <<0, 0, 0>> ELSE IF p = 1 THEN <<3, 4, 0>> ELSE <<3, 4, 12>>]

\* a pushed store of capacity MaxSlots; the caller then writes to the public
\* host array and host count without pushing, and launches
UnpushedNext ==
    \/ \E i \in Slots(n_max), l \in Link : WriteLink(i, l)
    \/ \E n \in Counts : WriteCount(n)
    \/ \E dX \in Accumulators : Launch(SpreadX, dX)
    \/ \E t \in DOMAIN pc : Enter(t)
    \/ \E t \in DOMAIN pc : Add(t)

SpecUnpushed == Pushed({MaxSlots}, {DefaultStrength}) /\ [][UnpushedNext]_vars

RECURSIVE LinkAdds(_, _, _, _, _)
\* the atomicAdds k..6 of the link l applied to acc one after the other
LinkAdds(l, s, X, acc, k) ==
    IF k > 6 THEN acc
    ELSE LET term == ForceTerm(X, l.a, l.b, s, k)
         IN  LinkAdds(l, s, X, [acc EXCEPT ![term.p][term.c] = fadd(@, term.val)], k + 1)

RECURSIVE LinkPass(_, _, _, _, _, _)
\* the kernel's work on the array L with the parameter n, slot after slot
LinkPass(L, n, s, X, acc, i) ==
    IF i >= n THEN acc
    ELSE LinkPass(L, n, s, X,
                  IF L[i].a # L[i].b THEN LinkAdds(L[i], s, X, acc, 1) ELSE acc,
                  i + 1)

\* what a launch on the store S leaves in the accumulators: the arguments
\* link_forces gives the kernel are S.d_link, get_d_n() and strength
LaunchOutcome(S, X, dX) == LinkPass(S.d_link, get_d_n(S).n, strength, X, dX, 0)

\* C18: the accumulators a completed launch leaves are those of a launch on
\* a store with the same device array, device count and strength and the
\* same points and accumulators, whose host array and host count are other
\* ones: those of the launching store, those equal to the device ones, and
\* others (every pair of host contents is compared through these).
C18_OutcomeIndependentOfHost ==
    Completed =>
        \A H \in Garbage(n_max) \cup {h_link, d_link}, n \in Counts \cup {h_n, d_n} :
            d_dX = LaunchOutcome(WithHost(H, n), d_X, dX0)

\* C18 witness: a completed launch on a store of capacity 2 whose host array
\* and host count both differ from the device ones, the host count being
\* smaller than the device count and the host array holding no active link;
\* both device slots were active and have added forces.
C18_Witness ==
    /\ Completed
    /\ n_max = 2 /\ d_n = 2 /\ h_n = 0
    /\ AllZero(h_link)
    /\ d_link[0] = MkLink(0, 1) /\ d_link[1] = MkLink(1, 0)
    /\ pc[0] = PcForced /\ pc[1] = PcForced
    /\ d_dX # dX0

(* ---------------------------------------------------------------------- *)

\* the store as it would be with a device count above n_max
OverCount == [Store EXCEPT !.d_n = n_max + 1]

\* C19: in every state where no call has aborted the device count is at most
\* n_max, whatever the caller has written into the host count; a
\* copy_to_device() step with the host count above n_max aborts with the
\* device array and the device count (and the host copy) as they were; and
\* copy_to_host() on a device count above n_max would fail only with the
\* host array and host count already overwritten by the device values.
C19_DeviceCountGuarded ==
    /\ [](phase = "ready" =>
            /\ d_n <= n_max
            /\ ~copy_to_host(OverCount).ok
            /\ copy_to_host(OverCount).h_link = d_link
            /\ copy_to_host(OverCount).h_n = n_max + 1)
    /\ [][(last'.op = "copy_to_device" /\ h_n > n_max) =>
             (phase' = "aborted" /\ UNCHANGED <<h_link, d_link, h_n, d_n>>)]_vars

\* C19 witness: the caller wrote n_max + 1 into the host count and another
\* link into the host array, and copy_to_device() has aborted: the device
\* count is still within n_max and the device array is not the host array.
C19_Witness ==
    /\ phase = "aborted"
    /\ last.op = "copy_to_device" /\ last.prev = "write_link"
    /\ n_max = 1 /\ h_n = 2 /\ d_n = 1
    /\ h_link[0] = MkLink(0, 1) /\ d_link[0] = MkLink(0, 0)

(* ---------------------------------------------------------------------- *)

RECURSIVE SumBelow(_, _, _)
\* the sum of component c of the accumulators of the points 0 .. p - 1
SumBelow(acc, c, p) ==
    IF p <= 0 THEN 0 ELSE acc[p - 1][c].v + SumBelow(acc, c, p - 1)

\* the total force: the sum of the accumulators over all points
TotalForce(acc) == [c \in 1 .. 3 |-> SumBelow(acc, c, Cardinality(DOMAIN acc))]

\* every active link below the kernel's n_max joins points at different places
NonCoincident == \A i \in ActiveSlots : d_X[d_link[i].a] # d_X[d_link[i].b]

\* no thread is between the first and the last atomicAdd of its link
NoneMidLink == \A t \in DOMAIN pc : pc[t] \notin 2 .. 6

\* C20: in a launch whose active links join non-coincident points, whenever
\* no thread is between the atomicAdds of its link (when the launch has
\* completed, in particular) all accumulators are finite and their sum over
\* the points is, in each component, what it was when the launch was issued.
C20_TotalForceConserved ==
    (InLaunch /\ NonCoincident /\ NoneMidLink) =>
        /\ \A p \in DOMAIN d_dX : Finite3(d_dX[p])
        /\ TotalForce(d_dX) = TotalForce(dX0)

\* C20 witness: a completed launch over two active links between points 5
\* apart, from non-zero accumulators that the launch has changed.
C20_Witness ==
    /\ Completed
    /\ ActiveSlots = {0, 1} /\ NonCoincident
    /\ d_link[0] = MkLink(0, 1) /\ d_link[1] = MkLink(0, 1)
    /\ d_X[0] = <<0, 0, 0>> /\ d_X[1] = <<3, 4, 0>>
    /\ dX0[1][1] = F(200)
    /\ d_dX[0] # dX0[0] /\ d_dX[1] # dX0[1]
    /\ TotalForce(d_dX) = <<300, -14, 2>>

====
